---- MODULE Spec2Model ----
(***************************************************************************)
(* Model of MirrorHandler (src/mirror.go): the checks of ServeHTTP before  *)
(* the cache, and cacheResponse / cacheFile: the in-flight map m.mut, the  *)
(* per-request handler goroutines, the detached populate goroutines, and   *)
(* the remote store behind the FS interface.                               *)
(***************************************************************************)
EXTENDS Integers, Sequences, FiniteSets, TLC

\* ---- bounds of the model ------------------------------------------------
NumReqs == 3            \* concurrent inbound requests
MaxSize == 2            \* largest object size reported by store / origin
MaxPathLen == 6         \* longest r.URL.Path of a request

Reqs == 1..NumReqs
Keys == {"a", "b"}      \* cache keys: path.Join(r.Host, r.URL.Path)
NoKey == "-"
Sizes == 0..MaxSize
NoEntry == -1           \* no cacheInfo: Stat has not returned an object
Unknown == -1           \* fs.FileInfo.Size() of a response without Content-Length
HeadFailed == -2        \* httpHead returned an error
GetFailed == -2         \* httpGet returned an error
NoProbe == -3           \* httpHead has not been called
NoChan == 0             \* no entry in m.mut / no channel loaded yet

\* Mutation: the link is built without the key.
RedirectLinks_NoPath(p) == << << "links", "a" >>, TRUE >>

\* main.go: RedirectLinks = fmt.Sprintf("%s/%s", redirectLinks, p), true
RedirectLinks(p) == << <<"links", p>>, TRUE >>
Urls == {RedirectLinks(k)[1] : k \in Keys}

VARIABLES
    BlockSuffix,        \* configuration: the blocked suffixes
    HostFromFirstPath,  \* configuration: take the host from the first segment
    BaseDomain,         \* configuration: the domain suffix, empty when unset
    cacheConfigured,    \* configuration: RemoteCache and RedirectLinks are set
    method,             \* r.Method of the request in ServeHTTP
    urlPath,            \* r.URL.Path of that request
    reqHost,            \* r.Host of that request
    urlHost,            \* r.URL.Host of that request
    CheckSyncTimeout,   \* configuration: 0 disables the freshness probe
    store,              \* RemoteCache: key -> size of the stored object, or NoEntry
    mut,                \* m.mut (sync.Map): url -> channel stored, or NoChan
    closeCount,         \* per channel (named by the request that made it): close() calls
    pc,                 \* position of each request's handler goroutine
    key,                \* file of each request
    closeCh,            \* the handler's local closeCh
    ctxDone,            \* r.Context() is cancelled
    resp,               \* responses written to w, in order
    retried,            \* the handler has been round the loop of lines 126-135
    cacheSize,          \* cacheInfo.Size() as returned by Stat
    sourceSize,         \* sourceInfo.Size() as returned by httpHead
    why,                \* why the handler reached line 189: "miss" (Stat failed),
                        \* "empty" (cached size 0) or "stale" (sizes differ)
    jobpc,              \* position of the goroutine started at line 191
    contentLength,      \* cacheFile's contentLength
    jobErr,             \* the value cacheFile returned
    errCh,              \* errCh, a channel of capacity ErrChCap
    won,                \* history: the request has won an insert
    putCalls,           \* history: RemoteCache.Put calls per key
    refetched,          \* history: a populate was started for a key that
                        \* already had an object in the store
    jobFailed           \* history: cacheFile returned an error for the key

config == << BlockSuffix, HostFromFirstPath, BaseDomain, cacheConfigured >>
request == << method, urlPath, reqHost, urlHost >>
front == << config, request >>
locals == << retried, cacheSize, sourceSize, why >>
job == << jobpc, contentLength, jobErr >>
vars == << front, CheckSyncTimeout, store, mut, closeCount, pc, key, closeCh, ctxDone,
           resp, locals, job, errCh, won, putCalls, refetched, jobFailed >>

ErrChCap == 1           \* make(chan error, 1)

u(r) == RedirectLinks(key[r])[1]

\* The state after construction, with requests to come for the keys in K:
\* m.mut is empty; the store is durable, so the objects under those keys
\* are whatever earlier runs left there.
InitOn(K) ==
    /\ CheckSyncTimeout \in {0, 1}
    /\ store \in {s \in [Keys -> {NoEntry} \cup Sizes] :
                     \A k \in Keys \ K : s[k] = NoEntry}
    /\ mut = [x \in Urls |-> NoChan]
    /\ closeCount = [r \in Reqs |-> 0]
    /\ pc = [r \in Reqs |-> "new"]
    /\ key = [r \in Reqs |-> NoKey]
    /\ closeCh = [r \in Reqs |-> NoChan]
    /\ ctxDone = [r \in Reqs |-> FALSE]
    /\ resp = [r \in Reqs |-> << >>]
    /\ retried = [r \in Reqs |-> FALSE]
    /\ cacheSize = [r \in Reqs |-> NoEntry]
    /\ sourceSize = [r \in Reqs |-> NoProbe]
    /\ why = [r \in Reqs |-> "none"]
    /\ jobpc = [r \in Reqs |-> "none"]
    /\ contentLength = [r \in Reqs |-> Unknown]
    /\ jobErr = [r \in Reqs |-> "unset"]
    /\ errCh = [r \in Reqs |-> << >>]
    /\ won = [r \in Reqs |-> FALSE]
    /\ putCalls = [k \in Keys |-> 0]
    /\ refetched = [k \in Keys |-> FALSE]
    /\ jobFailed = [k \in Keys |-> FALSE]

\* ---- handler return ---------------------------------------------------------
\* When ServeHTTP returns (or panics and is recovered by net/http) the
\* server cancels the request's context; the handler's locals are gone.
\* closeCh lives on in the doneCache closure while a populate job runs.
Return(r, at) ==
    /\ pc' = [pc EXCEPT ![r] = at]
    /\ ctxDone' = [ctxDone EXCEPT ![r] = TRUE]
    /\ retried' = [retried EXCEPT ![r] = FALSE]
    /\ cacheSize' = [cacheSize EXCEPT ![r] = NoEntry]
    /\ sourceSize' = [sourceSize EXCEPT ![r] = NoProbe]
    /\ why' = [why EXCEPT ![r] = "none"]

\* ---- responses ------------------------------------------------------------
\* http.Redirect / notFoundResponse / errorResponse each write one response.
Respond(r, what) == resp' = [resp EXCEPT ![r] = Append(@, what)]

\* errorResponse(w, r, ctx.Err()): ctx.Err() is context.Canceled once the
\* context is done and nil before; err.Error() on a nil error panics.
CtxErrIsNil(r) == ~ctxDone[r]

\* ---- m.mut.LoadOrStore(u, make(chan struct{})) ------------------------------
\* Mutation: m.mut.Store in place of LoadOrStore, the insert always wins.
LoadOrStore_Store(r, url) ==
    /\ mut' = [mut EXCEPT ![url] = r]
    /\ closeCh' = [closeCh EXCEPT ![r] = r]
    /\ pc' = [pc EXCEPT ![r] = "stat"]
    /\ won' = [won EXCEPT ![r] = TRUE]

\* The fresh channel is named by the request that makes it.
LoadOrStore(r, url) ==
    IF mut[url] = NoChan
    THEN /\ mut' = [mut EXCEPT ![url] = r]
         /\ closeCh' = [closeCh EXCEPT ![r] = r]
         /\ pc' = [pc EXCEPT ![r] = "stat"]
         /\ won' = [won EXCEPT ![r] = TRUE]
    ELSE /\ closeCh' = [closeCh EXCEPT ![r] = mut[url]]
         /\ pc' = [pc EXCEPT ![r] = "wait"]
         /\ UNCHANGED << mut, won >>

\* cacheResponse lines 116-125 for a request for one of the keys in K:
\* resolve the link and try the first insert.  Requests are numbered in
\* the order in which they reach line 116.
Arrive(r, K) ==
    /\ pc[r] = "new"
    /\ \A q \in Reqs : q < r => pc[q] # "new"
    /\ \E k \in K :
         /\ key' = [key EXCEPT ![r] = k]
         /\ IF RedirectLinks(k)[2]
            THEN /\ LoadOrStore(r, RedirectLinks(k)[1])
                 /\ UNCHANGED << resp, ctxDone, locals >>
            ELSE /\ Respond(r, "notfound")
                 /\ Return(r, "done")
                 /\ UNCHANGED << mut, closeCh, won >>
    /\ UNCHANGED << front, CheckSyncTimeout, store, closeCount, job, errCh, putCalls,
                    refetched, jobFailed >>

\* The client goes away: the request's context is cancelled.
Cancel(r) ==
    /\ pc[r] \in {"wait", "stat", "head", "select"}
    /\ ~ctxDone[r]
    /\ ctxDone' = [ctxDone EXCEPT ![r] = TRUE]
    /\ UNCHANGED << front, CheckSyncTimeout, store, mut, closeCount, pc, key, closeCh,
                    resp, locals, job, errCh, won, putCalls, refetched,
                    jobFailed >>

\* Mutation: the cancelled waiter runs doneCache on the channel it loaded.
WaitCancelled_Release(r) ==
    /\ pc[r] = "wait"
    /\ ctxDone[r]
    /\ Respond(r, "canceled")
    /\ Return(r, "done")
    /\ mut' = [mut EXCEPT ![u(r)] = NoChan]
    /\ closeCount' = [closeCount EXCEPT ![closeCh[r]] = @ + 1]
    /\ closeCh' = [closeCh EXCEPT ![r] = NoChan]
    /\ UNCHANGED << front, CheckSyncTimeout, store, key, job, errCh, won, putCalls,
                    refetched, jobFailed >>

\* lines 127-130: case <-ctx.Done()
WaitCancelled(r) ==
    /\ pc[r] = "wait"
    /\ ctxDone[r]
    /\ Respond(r, "canceled")
    /\ Return(r, "done")
    /\ closeCh' = [closeCh EXCEPT ![r] = NoChan]
    /\ UNCHANGED << front, CheckSyncTimeout, store, mut, closeCount, key, job, errCh,
                    won, putCalls, refetched, jobFailed >>

\* Mutation: the woken waiter goes on without retrying the insert.
WaitRetry_NoReinsert(r) ==
    /\ pc[r] = "wait"
    /\ closeCount[closeCh[r]] > 0
    /\ pc' = [pc EXCEPT ![r] = "stat"]
    /\ won' = [won EXCEPT ![r] = TRUE]
    /\ retried' = [retried EXCEPT ![r] = TRUE]
    /\ UNCHANGED << front, CheckSyncTimeout, store, mut, closeCount, key, closeCh,
                    ctxDone, resp, cacheSize, sourceSize, why, job, errCh,
                    putCalls, refetched, jobFailed >>

\* Mutation: the woken waiter answers with the failure the holder's
\* caller was given, when there is one.
WaitRetry_ShareFailure(r) ==
    /\ pc[r] = "wait"
    /\ closeCount[closeCh[r]] > 0
    /\ IF resp[closeCh[r]] \in {<< "error" >>, << "notfound" >>}
       THEN /\ resp' = [resp EXCEPT ![r] = resp[closeCh[r]]]
            /\ Return(r, "done")
            /\ closeCh' = [closeCh EXCEPT ![r] = NoChan]
            /\ UNCHANGED << mut, won >>
       ELSE /\ LoadOrStore(r, u(r))
            /\ retried' = [retried EXCEPT ![r] = TRUE]
            /\ UNCHANGED << ctxDone, resp, cacheSize, sourceSize, why >>
    /\ UNCHANGED << front, CheckSyncTimeout, store, closeCount, key, job, errCh,
                    putCalls, refetched, jobFailed >>

\* Mutation: the retry keeps only `loaded`; a waiter that loses the
\* insert again goes on selecting on the channel it already had.
WaitRetry_KeepChannel(r) ==
    /\ pc[r] = "wait"
    /\ closeCount[closeCh[r]] > 0
    /\ IF mut[u(r)] = NoChan
       THEN LoadOrStore(r, u(r))
       ELSE UNCHANGED << mut, closeCh, pc, won >>
    /\ retried' = [retried EXCEPT ![r] = TRUE]
    /\ UNCHANGED << front, CheckSyncTimeout, store, closeCount, key, ctxDone, resp,
                    cacheSize, sourceSize, why, job, errCh, putCalls,
                    refetched, jobFailed >>

\* lines 131-134: case <-closeCh, then the insert is retried.
WaitRetry(r) ==
    /\ pc[r] = "wait"
    /\ closeCount[closeCh[r]] > 0
    /\ LoadOrStore(r, u(r))
    /\ retried' = [retried EXCEPT ![r] = TRUE]
    /\ UNCHANGED << front, CheckSyncTimeout, store, closeCount, key, ctxDone, resp,
                    cacheSize, sourceSize, why, job, errCh, putCalls,
                    refetched, jobFailed >>

\* ---- doneCache (lines 137-140): m.mut.Delete(u), then close(closeCh) ------
MapDelete(url) == mut' = [mut EXCEPT ![url] = NoChan]

\* Mutation: doneCache closes whatever channel the map holds for the url
\* at that moment, when there is one.
CloseChan_Entry(c) ==
    closeCount' = [closeCount EXCEPT
                      ![IF mut[u(c)] # NoChan THEN mut[u(c)] ELSE c] = @ + 1]

CloseChan(c) == closeCount' = [closeCount EXCEPT ![c] = @ + 1]

\* doneCache() called by the handler itself (lines 146, 159, 171, 180).
CallerDelete(r) ==
    /\ pc[r] = "dc_delete"
    /\ MapDelete(u(r))
    /\ pc' = [pc EXCEPT ![r] = "dc_close"]
    /\ UNCHANGED << front, CheckSyncTimeout, store, closeCount, key, closeCh, ctxDone,
                    resp, locals, job, errCh, won, putCalls, refetched,
                    jobFailed >>

CallerClose(r) ==
    /\ pc[r] = "dc_close"
    /\ CloseChan(closeCh[r])
    /\ Return(r, "done")
    /\ closeCh' = [closeCh EXCEPT ![r] = NoChan]
    /\ UNCHANGED << front, CheckSyncTimeout, store, mut, key, resp, job, errCh, won,
                    putCalls, refetched, jobFailed >>

\* ---- RemoteCache.Stat and the decisions taken on its result -------------------
\* What Stat(ctx, file) can return: a cancellation error, another error
\* (not-found included), or the info of the stored object.
StatOutcomes(k) ==
    {"canceled", "err"} \cup (IF store[k] # NoEntry THEN {"ok"} ELSE {})

\* lines 189-195: errCh is made and the populate goroutine is started.
StartPopulate(r, reason) ==
    /\ jobpc' = [jobpc EXCEPT ![r] = "get"]
    /\ pc' = [pc EXCEPT ![r] = "select"]
    /\ why' = [why EXCEPT ![r] = reason]
    /\ refetched' = [refetched EXCEPT ![key[r]] = @ \/ store[key[r]] # NoEntry]

\* Mutation: the test of line 157 inverted.
HitTrustedWithoutProbe_Inverted(timeout) == timeout # 0

\* line 157: a hit is answered at once when no freshness timeout is set.
HitTrustedWithoutProbe(timeout) == timeout = 0

\* Mutation: an origin of unknown size does not count as agreeing.
SizesAgree_Strict(cSize, sSize) ==
    cSize # 0 /\ sSize = cSize

\* line 178: the cached object is trusted after a successful HEAD probe.
SizesAgree(cSize, sSize) ==
    cSize # 0 /\ (sSize <= 0 \/ sSize = cSize)

\* Mutation: a Stat error is answered with the internal error and the
\* reservation released, as any other failure would be.
Stat_SurfaceError(r) ==
    /\ pc[r] = "stat"
    /\ \E out \in StatOutcomes(key[r]) :
         CASE out = "canceled" ->
                \* errors.Is(err, context.Canceled): errorResponse(ctx.Err()), doneCache()
                /\ IF CtxErrIsNil(r)
                   THEN /\ Return(r, "panic")
                        /\ UNCHANGED resp
                   ELSE /\ Respond(r, "canceled")
                        /\ pc' = [pc EXCEPT ![r] = "dc_delete"]
                        /\ UNCHANGED << ctxDone, locals >>
                /\ UNCHANGED << jobpc, refetched >>
           [] out = "err" ->
                /\ Respond(r, "error")
                /\ pc' = [pc EXCEPT ![r] = "dc_delete"]
                /\ UNCHANGED << jobpc, ctxDone, locals, refetched >>
           [] out = "ok" ->
                /\ IF HitTrustedWithoutProbe(CheckSyncTimeout)
                   THEN /\ Respond(r, "redirect")
                        /\ pc' = [pc EXCEPT ![r] = "dc_delete"]
                   ELSE /\ pc' = [pc EXCEPT ![r] = "head"]
                        /\ UNCHANGED resp
                /\ cacheSize' = [cacheSize EXCEPT ![r] = store[key[r]]]
                /\ UNCHANGED << jobpc, ctxDone, retried, sourceSize, why,
                                refetched >>
    /\ UNCHANGED << front, CheckSyncTimeout, store, mut, closeCount, key, closeCh,
                    contentLength, jobErr, errCh, won, putCalls, jobFailed >>

\* lines 142-161
Stat(r) ==
    /\ pc[r] = "stat"
    /\ \E out \in StatOutcomes(key[r]) :
         CASE out = "canceled" ->
                \* errors.Is(err, context.Canceled): errorResponse(ctx.Err()), doneCache()
                /\ IF CtxErrIsNil(r)
                   THEN /\ Return(r, "panic")
                        /\ UNCHANGED resp
                   ELSE /\ Respond(r, "canceled")
                        /\ pc' = [pc EXCEPT ![r] = "dc_delete"]
                        /\ UNCHANGED << ctxDone, locals >>
                /\ UNCHANGED << jobpc, refetched >>
           [] out = "err" ->
                /\ StartPopulate(r, "miss")
                /\ UNCHANGED << resp, ctxDone, retried, cacheSize, sourceSize >>
           [] out = "ok" ->
                /\ IF HitTrustedWithoutProbe(CheckSyncTimeout)
                   THEN /\ Respond(r, "redirect")
                        /\ pc' = [pc EXCEPT ![r] = "dc_delete"]
                   ELSE /\ pc' = [pc EXCEPT ![r] = "head"]
                        /\ UNCHANGED resp
                /\ cacheSize' = [cacheSize EXCEPT ![r] = store[key[r]]]
                /\ UNCHANGED << jobpc, ctxDone, retried, sourceSize, why,
                                refetched >>
    /\ UNCHANGED << front, CheckSyncTimeout, store, mut, closeCount, key, closeCh,
                    contentLength, jobErr, errCh, won, putCalls, jobFailed >>

\* httpHead(sourceCtx, client, url): an error (timeout included) or the
\* origin's size, Unknown when the origin declares none.
HeadOutcomes == {HeadFailed, Unknown} \cup Sizes

\* Mutation: a failed probe is taken as a reason to refetch.
HeadProbe_RefetchOnFailure(r) ==
    /\ pc[r] = "head"
    /\ \E out \in HeadOutcomes :
         /\ sourceSize' = [sourceSize EXCEPT ![r] = out]
         /\ IF out = HeadFailed
            THEN /\ StartPopulate(r, "stale")
            ELSE /\ pc' = [pc EXCEPT ![r] = "compare"]
                 /\ UNCHANGED << jobpc, why, refetched >>
    /\ UNCHANGED << front, CheckSyncTimeout, store, mut, closeCount, key, closeCh,
                    ctxDone, resp, retried, cacheSize, contentLength, jobErr,
                    errCh, won, putCalls, jobFailed >>

\* lines 163-176
HeadProbe(r) ==
    /\ pc[r] = "head"
    /\ \E out \in HeadOutcomes :
         /\ sourceSize' = [sourceSize EXCEPT ![r] = out]
         /\ IF out = HeadFailed
            THEN /\ Respond(r, "redirect")
                 /\ pc' = [pc EXCEPT ![r] = "dc_delete"]
            ELSE /\ pc' = [pc EXCEPT ![r] = "compare"]
                 /\ UNCHANGED resp
    /\ UNCHANGED cacheSize
    /\ UNCHANGED << front, CheckSyncTimeout, store, mut, closeCount, key, closeCh,
                    ctxDone, retried, why, job, errCh, won, putCalls,
                    refetched, jobFailed >>

\* lines 177-187; cacheInfo and sourceInfo are not used after line 185.
Compare(r) ==
    /\ pc[r] = "compare"
    /\ IF SizesAgree(cacheSize[r], sourceSize[r])
       THEN /\ Respond(r, "redirect")
            /\ pc' = [pc EXCEPT ![r] = "dc_delete"]
            /\ UNCHANGED << jobpc, why, refetched >>
       ELSE /\ StartPopulate(r, IF cacheSize[r] = 0 THEN "empty" ELSE "stale")
            /\ UNCHANGED resp
    /\ cacheSize' = [cacheSize EXCEPT ![r] = NoEntry]
    /\ sourceSize' = [sourceSize EXCEPT ![r] = NoProbe]
    /\ UNCHANGED << front, CheckSyncTimeout, store, mut, closeCount, key, closeCh,
                    ctxDone, retried, contentLength, jobErr, errCh, won,
                    putCalls, jobFailed >>

\* ---- the populate goroutine (lines 191-195) and cacheFile (lines 215-248) --
\* httpGet(ctx, client, sourceFile): an error, or the response with its
\* declared length (Unknown when the origin declares none).
GetOutcomes == {GetFailed, Unknown} \cup Sizes

\* Mutation: every non-positive declared length counts as empty.
EmptyOrigin_NonPositive(cl) == cl <= 0

\* lines 224-227: a declared length of 0 is ErrNotOK, before any Put.
EmptyOrigin(cl) == cl = 0

\* lines 216-227
JobGet(r) ==
    /\ jobpc[r] = "get"
    /\ \E out \in GetOutcomes :
         IF out = GetFailed
         THEN /\ jobErr' = [jobErr EXCEPT ![r] = "GetErr"]
              /\ jobpc' = [jobpc EXCEPT ![r] = "send"]
              /\ jobFailed' = [jobFailed EXCEPT ![key[r]] = TRUE]
              /\ UNCHANGED contentLength
         ELSE /\ contentLength' = [contentLength EXCEPT ![r] = out]
              /\ IF EmptyOrigin(out)
                 THEN /\ jobErr' = [jobErr EXCEPT ![r] = "ErrNotOK"]
                      /\ jobpc' = [jobpc EXCEPT ![r] = "send"]
                      /\ jobFailed' = [jobFailed EXCEPT ![key[r]] = TRUE]
                 ELSE /\ jobpc' = [jobpc EXCEPT ![r] = "put"]
                      /\ UNCHANGED << jobErr, jobFailed >>
    /\ UNCHANGED << front, CheckSyncTimeout, store, mut, closeCount, pc, key, closeCh,
                    ctxDone, resp, locals, errCh, won, putCalls, refetched >>

\* lines 229-231: the body is bounded by the declared length when it is
\* known; otherwise the whole body is stored, whatever its size.
StoredSizes(cl) == IF cl > 0 THEN {cl} ELSE Sizes

\* lines 236-247: RemoteCache.Put(ctx, key, body) with context.Background();
\* cacheFile returns and its locals are gone.
JobPut(r) ==
    /\ jobpc[r] = "put"
    /\ putCalls' = [putCalls EXCEPT ![key[r]] = @ + 1]
    /\ \/ /\ jobErr' = [jobErr EXCEPT ![r] = "PutErr"]
          /\ jobFailed' = [jobFailed EXCEPT ![key[r]] = TRUE]
          /\ UNCHANGED store
       \/ /\ \E n \in StoredSizes(contentLength[r]) :
               store' = [store EXCEPT ![key[r]] = n]
          /\ jobErr' = [jobErr EXCEPT ![r] = "nil"]
          /\ UNCHANGED jobFailed
    /\ jobpc' = [jobpc EXCEPT ![r] = "send"]
    /\ contentLength' = [contentLength EXCEPT ![r] = Unknown]
    /\ UNCHANGED << front, CheckSyncTimeout, mut, closeCount, pc, key, closeCh,
                    ctxDone, resp, locals, errCh, won, refetched >>

\* line 194: errCh <- err blocks while the channel is full.
JobSend(r) ==
    /\ jobpc[r] = "send"
    /\ Len(errCh[r]) < ErrChCap
    /\ errCh' = [errCh EXCEPT ![r] = Append(@, jobErr[r])]
    /\ jobErr' = [jobErr EXCEPT ![r] = "unset"]
    /\ contentLength' = [contentLength EXCEPT ![r] = Unknown]
    /\ jobpc' = [jobpc EXCEPT ![r] = "dc_delete"]
    /\ UNCHANGED << front, CheckSyncTimeout, store, mut, closeCount, pc, key, closeCh,
                    ctxDone, resp, locals, won, putCalls, refetched,
                    jobFailed >>

\* line 192: defer doneCache()
JobDelete(r) ==
    /\ jobpc[r] = "dc_delete"
    /\ MapDelete(u(r))
    /\ jobpc' = [jobpc EXCEPT ![r] = "dc_close"]
    /\ UNCHANGED << front, CheckSyncTimeout, store, closeCount, pc, key, closeCh,
                    ctxDone, resp, locals, contentLength, jobErr, errCh, won,
                    putCalls, refetched, jobFailed >>

\* The goroutine ends; errCh is unreachable once the handler has returned
\* too, and whatever it buffers goes with it.
JobClose(r) ==
    /\ jobpc[r] = "dc_close"
    /\ CloseChan(closeCh[r])
    /\ jobpc' = [jobpc EXCEPT ![r] = "end"]
    /\ closeCh' = [closeCh EXCEPT ![r] = NoChan]
    /\ errCh' = [errCh EXCEPT ![r] = IF pc[r] = "done" THEN << >> ELSE @]
    /\ UNCHANGED << front, CheckSyncTimeout, store, mut, pc, key, ctxDone, resp,
                    locals, contentLength, jobErr, won, putCalls, refetched,
                    jobFailed >>

\* ---- the triggering caller's select (lines 197-212) ----------------------------
\* lines 202-211: the response for the populate result.
PopulateResponse(err) ==
    IF err = "nil" THEN "redirect"
    ELSE IF err = "ErrNotOK" THEN "notfound"
    ELSE "error"

\* Mutation: the cancelled caller runs doneCache itself.
SelectCancelled_Release(r) ==
    /\ pc[r] = "select"
    /\ ctxDone[r]
    /\ Respond(r, "canceled")
    /\ Return(r, "done")
    /\ MapDelete(u(r))
    /\ CloseChan(closeCh[r])
    /\ errCh' = [errCh EXCEPT ![r] = IF jobpc[r] = "end" THEN << >> ELSE @]
    /\ UNCHANGED << front, CheckSyncTimeout, store, key, closeCh, job, won, putCalls,
                    refetched, jobFailed >>

\* lines 198-200: case <-ctx.Done(); the job keeps the reservation.
SelectCancelled(r) ==
    /\ pc[r] = "select"
    /\ ctxDone[r]
    /\ Respond(r, "canceled")
    /\ Return(r, "done")
    /\ errCh' = [errCh EXCEPT ![r] = IF jobpc[r] = "end" THEN << >> ELSE @]
    /\ UNCHANGED << front, CheckSyncTimeout, store, mut, closeCount, key, closeCh,
                    job, won, putCalls, refetched, jobFailed >>

\* lines 201-211: case err := <-errCh
SelectResult(r) ==
    /\ pc[r] = "select"
    /\ Len(errCh[r]) > 0
    /\ Respond(r, PopulateResponse(Head(errCh[r])))
    /\ errCh' = [errCh EXCEPT ![r] = Tail(@)]
    /\ Return(r, "done")
    /\ UNCHANGED << front, CheckSyncTimeout, store, mut, closeCount, key, closeCh,
                    job, won, putCalls, refetched, jobFailed >>

\* ---- ServeHTTP, lines 49-113: the checks before the cache -------------------
\* Strings are sequences of one-character strings over Chars.
Chars == {"/", "a", "."}
Slash == << "/" >>
StringsUpTo(n) == UNION {[1..k -> Chars] : k \in 0..n}

\* net/http hands the handler an empty path or one that starts with "/".
Paths == {<< >>} \cup {Slash \o s : s \in StringsUpTo(MaxPathLen - 1)}
Methods == {"GET", "HEAD", "POST"}
Hosts == {<< "a", ".", "a" >>, << "a" >>}
BaseDomains == {<< >>, << ".", "a" >>}
BlockSuffixes == {{}, {<< "a" >>}, {Slash, << ".", "a" >>}}

\* strings.HasSuffix
HasSuffix(s, suffix) ==
    /\ Len(s) >= Len(suffix)
    /\ SubSeq(s, Len(s) - Len(suffix) + 1, Len(s)) = suffix

\* strings.Contains, for a separator of one character
Contains(s, c) == \E i \in 1..Len(s) : s[i] = c

\* strings.Split, for a separator of one character
RECURSIVE Split(_, _)
Split(s, c) ==
    IF ~Contains(s, c)
    THEN << s >>
    ELSE LET i == CHOOSE i \in 1..Len(s) :
                      s[i] = c /\ \A j \in 1..(i - 1) : s[j] # c
         IN  << SubSeq(s, 1, i - 1) >> \o Split(SubSeq(s, i + 1, Len(s)), c)

\* strings.Join, for a separator of one character
RECURSIVE Join(_, _)
Join(elems, c) ==
    IF elems = << >> THEN << >>
    ELSE IF Len(elems) = 1 THEN elems[1]
    ELSE elems[1] \o << c >> \o Join(Tail(elems), c)

\* s3utils.IsValidDomain over Chars: not empty, no leading ".", no "/".
IsValidDomain(host) ==
    /\ Len(host) > 0
    /\ host[1] # "."
    /\ ~Contains(host, "/")

\* Mutation: the path is validated before the blocked suffixes are tried.
Precheck_PathFirst(m, path) ==
    IF m \notin {"GET", "HEAD"} THEN "methodnotallowed"
    ELSE IF Len(path) = 0 \/ HasSuffix(path, Slash) THEN "notfound"
    ELSE IF \E suffix \in BlockSuffix : HasSuffix(path, suffix)
    THEN "forbidden"
    ELSE "pass"

\* lines 50-68: method, blocked suffixes, shape of the path
Precheck(m, path) ==
    IF m \notin {"GET", "HEAD"} THEN "methodnotallowed"
    ELSE IF \E suffix \in BlockSuffix : HasSuffix(path, suffix)
    THEN "forbidden"
    ELSE IF Len(path) = 0 \/ HasSuffix(path, Slash) THEN "notfound"
    ELSE "pass"

\* Mutation: every segment is joined back, the first one included.
FirstPath_JoinAll(path) ==
    LET paths == Split(Tail(path), "/")
    IN  [host |-> paths[1], path |-> Slash \o Join(paths, "/")]

\* lines 72-74: paths := strings.Split(path[1:], "/"); host = paths[0];
\* path = "/" + strings.Join(paths[1:], "/")
FirstPath(path) ==
    LET paths == Split(Tail(path), "/")
    IN  [host |-> paths[1], path |-> Slash \o Join(Tail(paths), "/")]

\* lines 49-113.  The handler writes 405, 403 or not-found and returns, or
\* rewrites the request and goes on to cacheResponse ("new") or to
\* directResponse ("direct").
ServeHTTP(r) ==
    /\ pc[r] = "recv"
    /\ LET check == Precheck(method, urlPath)
           host == IF HostFromFirstPath THEN FirstPath(urlPath).host
                   ELSE reqHost
           path == IF HostFromFirstPath THEN FirstPath(urlPath).path
                   ELSE urlPath
       IN  IF check # "pass"
           THEN /\ Respond(r, check)
                /\ Return(r, "done")
                /\ UNCHANGED << urlPath, reqHost, urlHost >>
           ELSE IF HostFromFirstPath /\ path = Slash
           THEN /\ Respond(r, "notfound")
                /\ Return(r, "done")
                /\ UNCHANGED << urlPath, reqHost, urlHost >>
           ELSE /\ reqHost' = host
                /\ urlPath' = path
                /\ IF ~Contains(host, ".") \/ ~IsValidDomain(host)
                   THEN /\ Respond(r, "notfound")
                        /\ Return(r, "done")
                        /\ UNCHANGED urlHost
                   ELSE IF BaseDomain # << >> /\ ~HasSuffix(host, BaseDomain)
                   THEN /\ Respond(r, "notfound")
                        /\ Return(r, "done")
                        /\ UNCHANGED urlHost
                   ELSE /\ urlHost' =
                              IF BaseDomain # << >>
                              THEN SubSeq(host, 1,
                                          Len(reqHost') - Len(BaseDomain))
                              ELSE host
                        /\ pc' = [pc EXCEPT ![r] =
                                     IF cacheConfigured THEN "new"
                                     ELSE "direct"]
                        /\ UNCHANGED << resp, ctxDone, locals >>
    /\ UNCHANGED << config, method, CheckSyncTimeout, store, mut, closeCount,
                    key, closeCh, job, errCh, won, putCalls, refetched,
                    jobFailed >>

\* directResponse, lines 250-287: the origin's response is streamed to the
\* client; a failed round trip is an error response, and a failed copy of
\* a GET body is an error response after the origin's status.
DirectResponse(r) ==
    /\ pc[r] = "direct"
    /\ \E out \in {"doerr", "ok", "copyerr"} :
         /\ out = "copyerr" => method = "GET"
         /\ resp' = [resp EXCEPT ![r] =
                        @ \o (CASE out = "doerr" -> << "error" >>
                                [] out = "ok" -> << "proxied" >>
                                [] out = "copyerr" -> << "proxied", "error" >>)]
    /\ Return(r, "done")
    /\ UNCHANGED << front, CheckSyncTimeout, store, mut, closeCount, key, closeCh,
                    job, errCh, won, putCalls, refetched, jobFailed >>

\* In the specifications of cacheResponse every request has passed the
\* checks above: the mirror is configured with a cache and the request is
\* one that lines 49-113 hand over.
FrontPassed ==
    /\ BlockSuffix = {}
    /\ HostFromFirstPath = FALSE
    /\ BaseDomain = << >>
    /\ cacheConfigured = TRUE
    /\ method = "GET"
    /\ urlPath = << "/", "a" >>
    /\ reqHost = << "a", ".", "a" >>
    /\ urlHost = << "a", ".", "a" >>

\* ---- requests for one fixed key -----------------------------------------------
FixedKey == {"a"}

\* The mirror starts on an empty bucket: every object a handler finds in
\* the store has been put there by a populate job of this run.
FreshStore == \A k \in Keys : store[k] = NoEntry

Init == InitOn(FixedKey) /\ FreshStore /\ FrontPassed

Next ==
    \E r \in Reqs :
        \/ Arrive(r, FixedKey)
        \/ Cancel(r)
        \/ WaitCancelled(r)
        \/ WaitRetry(r)
        \/ Stat(r)
        \/ HeadProbe(r)
        \/ Compare(r)
        \/ CallerDelete(r)
        \/ CallerClose(r)
        \/ JobGet(r)
        \/ JobPut(r)
        \/ JobSend(r)
        \/ JobDelete(r)
        \/ JobClose(r)
        \/ SelectCancelled(r)
        \/ SelectResult(r)

Spec == Init /\ [][Next]_vars

\* ---- the same program under a fair scheduler ------------------------------------
\* All requests but the last arrive, and the bucket holds under the key
\* whatever earlier runs left there.  The Go scheduler runs every
\* goroutine that is able to run; the handler's select takes a ready case;
\* httpGet and Put, called under context.Background(), are taken to return.
FairReqs == 1..(NumReqs - 1)

FairNext ==
    \E r \in FairReqs :
        \/ Arrive(r, FixedKey)
        \/ Cancel(r)
        \/ WaitCancelled(r)
        \/ WaitRetry(r)
        \/ Stat(r)
        \/ HeadProbe(r)
        \/ Compare(r)
        \/ CallerDelete(r)
        \/ CallerClose(r)
        \/ JobGet(r)
        \/ JobPut(r)
        \/ JobSend(r)
        \/ JobDelete(r)
        \/ JobClose(r)
        \/ SelectCancelled(r)
        \/ SelectResult(r)

JobStep(r) ==
    JobGet(r) \/ JobPut(r) \/ JobSend(r) \/ JobDelete(r) \/ JobClose(r)

HandlerStep(r) ==
    \/ WaitCancelled(r) \/ WaitRetry(r) \/ Stat(r) \/ HeadProbe(r)
    \/ Compare(r) \/ CallerDelete(r) \/ CallerClose(r)
    \/ SelectCancelled(r) \/ SelectResult(r)

FairInit == InitOn(FixedKey) /\ FrontPassed

FairSpec ==
    /\ FairInit
    /\ [][FairNext]_vars
    /\ \A r \in FairReqs : WF_vars(JobStep(r)) /\ WF_vars(HandlerStep(r))

\* ---- requests for either key ----------------------------------------------------
\* All requests but the last arrive, each for any of the keys.
KeysInit == InitOn(Keys) /\ FrontPassed

KeysNext ==
    \E r \in FairReqs :
        \/ Arrive(r, Keys)
        \/ Cancel(r)
        \/ WaitCancelled(r)
        \/ WaitRetry(r)
        \/ Stat(r)
        \/ HeadProbe(r)
        \/ Compare(r)
        \/ CallerDelete(r)
        \/ CallerClose(r)
        \/ JobGet(r)
        \/ JobPut(r)
        \/ JobSend(r)
        \/ JobDelete(r)
        \/ JobClose(r)
        \/ SelectCancelled(r)
        \/ SelectResult(r)

KeysSpec == KeysInit /\ [][KeysNext]_vars

\* ---- one request through ServeHTTP ------------------------------------------
\* One request is followed from line 49 to its response, under every
\* configuration and every request of the bounded sets; no other request
\* arrives, so nobody waits.
ServedReq == 1

ServeInit ==
    /\ BlockSuffix \in BlockSuffixes
    /\ HostFromFirstPath \in BOOLEAN
    /\ BaseDomain \in BaseDomains
    /\ cacheConfigured \in BOOLEAN
    /\ method \in Methods
    /\ urlPath \in Paths
    /\ reqHost \in Hosts
    /\ urlHost = << >>
    /\ CheckSyncTimeout \in {0, 1}
    /\ store \in {s \in [Keys -> {NoEntry} \cup Sizes] :
                     \A k \in Keys \ FixedKey : s[k] = NoEntry}
    /\ mut = [x \in Urls |-> NoChan]
    /\ closeCount = [r \in Reqs |-> 0]
    /\ pc = [r \in Reqs |-> IF r = ServedReq THEN "recv" ELSE "new"]
    /\ key = [r \in Reqs |-> NoKey]
    /\ closeCh = [r \in Reqs |-> NoChan]
    /\ ctxDone = [r \in Reqs |-> FALSE]
    /\ resp = [r \in Reqs |-> << >>]
    /\ retried = [r \in Reqs |-> FALSE]
    /\ cacheSize = [r \in Reqs |-> NoEntry]
    /\ sourceSize = [r \in Reqs |-> NoProbe]
    /\ why = [r \in Reqs |-> "none"]
    /\ jobpc = [r \in Reqs |-> "none"]
    /\ contentLength = [r \in Reqs |-> Unknown]
    /\ jobErr = [r \in Reqs |-> "unset"]
    /\ errCh = [r \in Reqs |-> << >>]
    /\ won = [r \in Reqs |-> FALSE]
    /\ putCalls = [k \in Keys |-> 0]
    /\ refetched = [k \in Keys |-> FALSE]
    /\ jobFailed = [k \in Keys |-> FALSE]

ServeNext ==
    \E r \in {ServedReq} :
        \/ ServeHTTP(r)
        \/ DirectResponse(r)
        \/ Arrive(r, FixedKey)
        \/ Cancel(r)
        \/ Stat(r)
        \/ HeadProbe(r)
        \/ Compare(r)
        \/ CallerDelete(r)
        \/ CallerClose(r)
        \/ JobGet(r)
        \/ JobPut(r)
        \/ JobSend(r)
        \/ JobDelete(r)
        \/ JobClose(r)
        \/ SelectCancelled(r)
        \/ SelectResult(r)

ServeSpec == ServeInit /\ [][ServeNext]_vars


\* ---- vocabulary of the properties -----------------------------------------------
Outcomes == {"redirect", "notfound", "error", "canceled"}

\* r holds the reservation of its url: it has won the insert and the
\* Delete of doneCache has not run yet.
Holds(r) ==
    /\ won[r]
    /\ \/ pc[r] \in {"stat", "head", "compare", "dc_delete", "panic"}
       \/ jobpc[r] \in {"get", "put", "send", "dc_delete"}

\* The handler of r has returned and its populate job, if any, has ended.
Terminated(r) == pc[r] \in {"done", "panic"} /\ jobpc[r] \in {"none", "end"}

Quiescent == \A r \in Reqs : Terminated(r)

Answered(r, what) == pc[r] = "done" /\ resp[r] = << what >>

\* The requests that have started a populate job for key k, those whose
\* job still holds the reservation, and those whose job is past the Put.
Jobs(k) == {r \in Reqs : key[r] = k /\ jobpc[r] # "none"}

Running(k) ==
    {r \in Jobs(k) : jobpc[r] \in {"get", "put", "send", "dc_delete"}}

PastPut(k) == {r \in Jobs(k) : jobpc[r] \notin {"get", "put"}}

\* The job of r has called Put and its result has not been received yet.
PutIssued(r) ==
    \/ jobpc[r] = "send" /\ jobErr[r] \in {"nil", "PutErr"}
    \/ errCh[r] # << >> /\ Head(errCh[r]) \in {"nil", "PutErr"}

\* The step writes the response what for r.
Writes(r, what) == resp'[r] = Append(resp[r], what)

\* ---- C1 ---------------------------------------------------------------------------
\* C1: for every url at most one request holds the reservation, the map
\* entry is that holder's channel, and every other request contending for
\* the url is a waiter blocked on a channel that is not its own.
C1_MutualExclusion ==
    \A x \in Urls :
        LET H == {r \in Reqs : key[r] # NoKey /\ u(r) = x /\ Holds(r)}
        IN  /\ Cardinality(H) <= 1
            /\ \A r \in H : mut[x] = r
            /\ \A q \in Reqs :
                 (pc[q] = "wait" /\ u(q) = x) =>
                     closeCh[q] \in Reqs \ {q} /\ ~Holds(q)

\* One holder with two other requests waiting on its channel.
C1_Witness ==
    \E r \in Reqs :
        /\ Holds(r)
        /\ Cardinality({q \in Reqs : pc[q] = "wait" /\ closeCh[q] = r}) >= 2

\* ---- C2 ---------------------------------------------------------------------------
\* C2: every reservation that was won is released exactly once: no channel
\* is closed twice, and once the winner's handler and job have ended its
\* channel has been closed.
C2_ReleasedExactlyOnce ==
    \A r \in Reqs :
        /\ closeCount[r] <= 1
        /\ (won[r] /\ Terminated(r)) => closeCount[r] = 1

\* ---- C5 ---------------------------------------------------------------------------
\* C5: a request never answers with a redirect that trusts an empty cache
\* entry: when it is about to release the reservation after a redirect,
\* the object under its key is not of size 0.
C5_EmptyNeverTrusted ==
    \A r \in Reqs :
        (pc[r] = "dc_delete" /\ resp[r] = << "redirect" >>) =>
            store[key[r]] # 0

\* ---- C8 ---------------------------------------------------------------------------
\* C8: every handler that has ended wrote exactly one of the four outcomes;
\* no waiter is blocked on a channel that nobody is left to close; and once
\* all handlers and jobs have ended the in-flight map is empty.
C8_OneOutcomeNoLeak ==
    /\ \A r \in Reqs :
         pc[r] \in {"done", "panic"} =>
             Len(resp[r]) = 1 /\ resp[r][1] \in Outcomes
    /\ \A q \in Reqs :
         pc[q] = "wait" =>
             ~(Terminated(closeCh[q]) /\ closeCount[closeCh[q]] = 0)
    /\ Quiescent => \A x \in Urls : mut[x] = NoChan

\* ---- C9 ---------------------------------------------------------------------------
\* C9: a holder to which Stat reported cancellation (a winner that ended
\* without a redirect and without a populate job) has answered Canceled,
\* has closed its channel and has left no entry of its own in the map.
C9_StatCancelReleases ==
    \A r \in Reqs :
        (won[r] /\ Terminated(r) /\ jobpc[r] = "none"
              /\ resp[r] # << "redirect" >>) =>
            /\ resp[r] = << "canceled" >>
            /\ closeCount[r] = 1
            /\ mut[u(r)] # r

\* ---- C3 ---------------------------------------------------------------------------
\* C3 as stated: once all is quiet, requests that started a populate for a
\* key that was and stayed a miss whenever a populate began have caused
\* exactly one Put for the key.
C3_ExactlyOnePut ==
    \A k \in Keys :
        (Quiescent /\ Jobs(k) # {} /\ ~refetched[k]) => putCalls[k] = 1

\* C3 amended: per key at most one populate job runs at a time and every
\* job calls Put at most once; while no job has failed and no populate was
\* started over an existing object there is at most one Put for the key,
\* and exactly one once the job that was started has ended.
C3_OnePutUnlessJobFailed ==
    \A k \in Keys :
        /\ Cardinality(Running(k)) <= 1
        /\ putCalls[k] <= Cardinality(PastPut(k))
        /\ (~refetched[k] /\ ~jobFailed[k]) =>
               /\ putCalls[k] <= 1
               /\ Cardinality(Jobs(k)) <= 1
               /\ (\E r \in Jobs(k) : jobpc[r] = "end") => putCalls[k] = 1

\* Three requests for a missing key: the first populated it with one Put,
\* the other two waited, retried the insert and were redirected.
C3_Witness ==
    \E k \in Keys : \E r1, r2, r3 \in Reqs :
        /\ r1 # r2 /\ r1 # r3 /\ r2 # r3
        /\ Jobs(k) = {r1} /\ jobpc[r1] = "end"
        /\ ~refetched[k] /\ ~jobFailed[k] /\ putCalls[k] = 1
        /\ Answered(r1, "redirect") /\ Answered(r2, "redirect")
        /\ key[r2] = k /\ won[r2]
        /\ key[r3] = k /\ retried[r3] /\ pc[r3] = "dc_delete"
        /\ resp[r3] = << "redirect" >>

\* ---- C4 ---------------------------------------------------------------------------
\* C4: a Canceled answer is only ever written for a request whose own
\* context is done, and a context becoming done changes nothing but that
\* flag; a populate job whose caller has gone keeps the reservation until
\* its own doneCache, is never blocked on errCh, and then has closed its
\* channel; a Put that succeeded leaves an object that stays in the store.
C4_StepOK ==
    /\ \A r \in Reqs :
         /\ Writes(r, "canceled") => ctxDone[r]
         /\ (~ctxDone[r] /\ ctxDone'[r] /\ pc'[r] = pc[r]) =>
                UNCHANGED << store, mut, closeCount, pc, closeCh, resp, job,
                             errCh, putCalls >>
         /\ (pc'[r] = "done" /\ jobpc'[r] \in {"get", "put", "send"}) =>
                /\ mut'[u(r)] = r
                /\ closeCount'[r] = 0
         /\ jobpc'[r] = "send" => Len(errCh'[r]) < ErrChCap
         /\ jobpc'[r] = "end" => closeCount'[r] = 1 /\ mut'[u(r)] # r
         /\ (jobpc[r] = "put" /\ jobErr'[r] = "nil") =>
                store'[key[r]] # NoEntry
    /\ \A k \in Keys : store[k] # NoEntry => store'[k] # NoEntry

\* Under the fair scheduler every populate job that was started ends,
\* whatever becomes of its caller.
C4_JobCompletes == \A r \in FairReqs : (jobpc[r] = "get") ~> (jobpc[r] = "end")

C4_CancelAbortsOnlyCaller == [][C4_StepOK]_vars /\ C4_JobCompletes

\* The caller that triggered the populate was cancelled and answered
\* Canceled; its job went on to store the object and released; a request
\* that had been waiting then found the object and redirected.
C4_Witness ==
    \E r, q \in Reqs :
        /\ r # q /\ key[q] = key[r]
        /\ Answered(r, "canceled") /\ jobpc[r] = "end"
        /\ putCalls[key[r]] = 1 /\ ~jobFailed[key[r]]
        /\ retried[q] /\ ~ctxDone[q] /\ pc[q] = "dc_delete"
        /\ resp[q] = << "redirect" >> /\ jobpc[q] = "none"

\* ---- C6 ---------------------------------------------------------------------------
\* C6 as stated: after a successful probe with cached size S > 0 the
\* request redirects without a job when the origin size is non-positive
\* or S, and otherwise, unless it is cancelled, its job has called Put by
\* the time it answers.
C6_RefetchPutBeforeAnswer ==
    [][\A r \in Reqs :
         /\ (pc[r] = "compare" /\ pc'[r] # "compare" /\ cacheSize[r] > 0
                 /\ (sourceSize[r] <= 0 \/ sourceSize[r] = cacheSize[r])) =>
                Writes(r, "redirect") /\ jobpc'[r] = "none"
         /\ (pc[r] = "select" /\ why[r] = "stale" /\ pc'[r] = "done"
                 /\ ~ctxDone[r]) =>
                PutIssued(r)]_vars

\* C6 amended: after a successful probe with cached size S > 0 the request
\* redirects, starting no job, when the origin size is non-positive or S;
\* otherwise it starts one populate job and writes nothing yet.  That
\* job calls Put at most once; the request answers redirect only after the
\* Put succeeded, and answers not-found, internal error or Canceled when
\* the job issued no Put before the answer.
C6_StepOK ==
    \A r \in Reqs :
        /\ (pc[r] = "compare" /\ pc'[r] # "compare" /\ cacheSize[r] > 0) =>
              IF sourceSize[r] <= 0 \/ sourceSize[r] = cacheSize[r]
              THEN /\ Writes(r, "redirect")
                   /\ pc'[r] = "dc_delete"
                   /\ jobpc'[r] = "none"
                   /\ putCalls' = putCalls
              ELSE /\ jobpc[r] = "none" /\ jobpc'[r] = "get"
                   /\ why'[r] = "stale"
                   /\ resp'[r] = resp[r]
                   /\ putCalls' = putCalls
        /\ (pc[r] = "select" /\ why[r] = "stale" /\ pc'[r] = "done") =>
              /\ Writes(r, "redirect") =>
                     errCh[r] = << "nil" >> /\ store[key[r]] \in Sizes
              /\ ~PutIssued(r) =>
                     \/ Writes(r, "notfound")
                     \/ Writes(r, "error")
                     \/ Writes(r, "canceled")
        /\ jobpc'[r] # jobpc[r] =>
              IF jobpc[r] = "put"
              THEN putCalls'[key[r]] = putCalls[key[r]] + 1
              ELSE putCalls' = putCalls

C6_FreshnessDecision == [][C6_StepOK]_vars

\* A request found the object that an earlier populate had put stale; its
\* job has stored the refetched object with one more Put and the result
\* is waiting in errCh.
C6_Witness ==
    \E r \in Reqs :
        /\ pc[r] = "select" /\ why[r] = "stale"
        /\ errCh[r] = << "nil" >>
        /\ refetched[key[r]]
        /\ putCalls[key[r]] = 2

\* ---- C7 ---------------------------------------------------------------------------
\* C7 as stated: a request woken from its wait on a job whose failure was
\* reported to the job's caller answers with that same outcome and starts
\* nothing of its own.
C7_FailureSharedWithWaiters ==
    [][\A q \in Reqs :
         (/\ pc[q] = "wait" /\ pc'[q] # "wait" /\ ~ctxDone[q]
          /\ pc[closeCh[q]] = "done"
          /\ resp[closeCh[q]] \in {<< "error" >>, << "notfound" >>}) =>
             /\ pc'[q] = "done"
             /\ resp'[q] = resp[closeCh[q]]]_vars

\* C7 amended: a populate failure is reported only to the caller that
\* triggered the job, out of that job's own result.  A request woken from
\* its wait writes nothing: it has won a fresh insert and goes on to Stat,
\* or has lost it and waits on the new holder's channel; a waiter returns
\* from the wait only with Canceled.  A job is started only while no
\* other job for the key holds the reservation.
C7_StepOK ==
    \A r \in Reqs :
        /\ (pc[r] # "new" /\ (Writes(r, "error") \/ Writes(r, "notfound"))) =>
              /\ pc[r] = "select"
              /\ errCh[r] # << >>
              /\ Head(errCh[r]) \in {"ErrNotOK", "GetErr", "PutErr"}
              /\ jobpc[r] \in {"dc_delete", "dc_close", "end"}
        /\ (pc[r] = "wait" /\ pc'[r] = "done") => Writes(r, "canceled")
        /\ (pc[r] = "wait" /\ pc'[r] # "done"
                 /\ << pc'[r], closeCh'[r] >> # << pc[r], closeCh[r] >>) =>
              /\ resp'[r] = resp[r]
              /\ retried'[r]
              /\ jobpc'[r] = "none"
              /\ \/ /\ pc'[r] = "stat"
                    /\ mut[u(r)] = NoChan /\ mut'[u(r)] = r
                 \/ /\ pc'[r] = "wait"
                    /\ closeCh'[r] = mut[u(r)] /\ closeCh'[r] \notin {NoChan, r}
        /\ (jobpc[r] = "none" /\ jobpc'[r] # "none") =>
              Running(key[r]) = {} /\ mut[u(r)] = r

C7_FailureReportedToTrigger == [][C7_StepOK]_vars

\* The first job failed and its caller answered with the error; a request
\* that had waited on it retried, won the insert, found a miss and is
\* running a populate job of its own, on which a third request waits.
C7_Witness ==
    \E c, q, w \in Reqs :
        /\ c # q /\ q # w /\ c # w
        /\ Answered(c, "error") /\ jobpc[c] = "end"
        /\ retried[q] /\ pc[q] = "select" /\ jobpc[q] = "put"
        /\ pc[w] = "wait" /\ closeCh[w] = q

\* ---- C10 --------------------------------------------------------------------------
\* C10: cacheFile returns ErrNotOK exactly when the declared length is 0,
\* and then without a Put; otherwise it calls Put once and returns nil
\* with the object stored or the Put error with the store untouched; a GET
\* error is returned without a Put.  The caller that receives the result
\* answers redirect for nil, not-found for ErrNotOK and internal error
\* for a GET or Put error.
C10_StepOK ==
    \A r \in Reqs :
        /\ jobpc[r] = "get" /\ jobpc'[r] # "get" =>
              /\ putCalls' = putCalls /\ store' = store
              /\ jobErr'[r] = "ErrNotOK" <=> contentLength'[r] = 0
              /\ jobpc'[r] = "put" <=> jobErr'[r] = "unset"
              /\ jobpc'[r] # "put" =>
                     jobpc'[r] = "send" /\ jobErr'[r] \in {"ErrNotOK", "GetErr"}
        /\ jobpc[r] = "put" /\ jobpc'[r] # "put" =>
              /\ putCalls'[key[r]] = putCalls[key[r]] + 1
              /\ jobErr'[r] \in {"nil", "PutErr"}
              /\ jobErr'[r] = "PutErr" => store' = store
              /\ jobErr'[r] = "nil" =>
                     /\ store'[key[r]] \in Sizes
                     /\ contentLength[r] > 0 =>
                            store'[key[r]] = contentLength[r]
        /\ jobpc[r] = "send" /\ jobpc'[r] # "send" =>
              errCh'[r] = << jobErr[r] >>
        /\ (pc[r] = "select" /\ pc'[r] = "done" /\ ~Writes(r, "canceled")) =>
              /\ errCh[r] # << >>
              /\ Head(errCh[r]) = "nil" => Writes(r, "redirect")
              /\ Head(errCh[r]) = "ErrNotOK" => Writes(r, "notfound")
              /\ Head(errCh[r]) \in {"GetErr", "PutErr"} => Writes(r, "error")

C10_PopulateOutcomeMapping == [][C10_StepOK]_vars

\* Three populate jobs in turn for one key, with one Put between them: the
\* origin declared length 0 and the caller answered not-found; the GET
\* failed and the caller answered internal error; the Put succeeded and
\* the caller redirected.
C10_Witness ==
    \E r1, r2, r3 \in Reqs :
        /\ Answered(r1, "notfound") /\ jobpc[r1] = "end"
        /\ Answered(r2, "error") /\ jobpc[r2] = "end"
        /\ Answered(r3, "redirect") /\ jobpc[r3] = "end"
        /\ key[r2] = key[r1] /\ key[r3] = key[r1]
        /\ putCalls[key[r1]] = 1

\* ---- C11 --------------------------------------------------------------------------
\* C11: when the HEAD probe of a request that found a cache entry fails,
\* the request writes a redirect, starts no populate job (no GET, no Put,
\* the store untouched) and goes on to doneCache, which removes its own
\* map entry and closes its channel once.
C11_StepOK ==
    \A r \in Reqs :
        /\ (pc[r] = "head" /\ sourceSize'[r] = HeadFailed) =>
              /\ cacheSize[r] \in Sizes
              /\ Writes(r, "redirect")
              /\ pc'[r] = "dc_delete"
              /\ jobpc'[r] = "none"
              /\ putCalls' = putCalls /\ store' = store
        /\ sourceSize'[r] = HeadFailed =>
              /\ pc'[r] \in {"dc_delete", "dc_close"}
              /\ jobpc'[r] = "none"
              /\ resp'[r] = << "redirect" >>
        /\ (sourceSize[r] = HeadFailed /\ pc'[r] # pc[r]) =>
              /\ putCalls' = putCalls /\ store' = store
              /\ pc[r] = "dc_delete" =>
                     /\ mut[u(r)] = r /\ mut'[u(r)] = NoChan
                     /\ pc'[r] = "dc_close"
              /\ pc[r] = "dc_close" =>
                     /\ closeCount[r] = 0 /\ closeCount'[r] = 1
                     /\ pc'[r] = "done"

C11_ProbeFailureTrustsCache == [][C11_StepOK]_vars

\* A request whose probe failed has redirected and removed its entry and
\* started no job: the only Put for the key is the one that stored the
\* object it found.  It is about to close its channel.
C11_Witness ==
    \E r \in Reqs :
        /\ sourceSize[r] = HeadFailed /\ pc[r] = "dc_close"
        /\ resp[r] = << "redirect" >>
        /\ mut[u(r)] = NoChan
        /\ jobpc[r] = "none"
        /\ putCalls[key[r]] = 1

\* ---- C16 --------------------------------------------------------------------------
\* C16: with CheckSyncTimeout = 0 no request ever probes the origin, and a
\* request to which Stat returned an entry writes a redirect, starts no
\* populate job (no GET, no Put, the store untouched) and goes on to
\* doneCache, which removes its own map entry and closes its channel once.
C16_StepOK ==
    CheckSyncTimeout = 0 =>
        \A r \in Reqs :
            /\ pc'[r] \notin {"head", "compare"}
            /\ sourceSize'[r] = NoProbe
            /\ (pc[r] = "stat" /\ cacheSize'[r] # NoEntry) =>
                  /\ cacheSize'[r] = store[key[r]]
                  /\ Writes(r, "redirect")
                  /\ pc'[r] = "dc_delete"
                  /\ putCalls' = putCalls /\ store' = store
            /\ cacheSize'[r] # NoEntry =>
                  /\ pc'[r] \in {"dc_delete", "dc_close"}
                  /\ jobpc'[r] = "none"
                  /\ resp'[r] = << "redirect" >>
            /\ (cacheSize[r] # NoEntry /\ pc'[r] # pc[r]) =>
                  /\ putCalls' = putCalls /\ store' = store
                  /\ pc[r] = "dc_delete" =>
                         /\ mut[u(r)] = r /\ mut'[u(r)] = NoChan
                         /\ pc'[r] = "dc_close"
                  /\ pc[r] = "dc_close" =>
                         /\ closeCount[r] = 0 /\ closeCount'[r] = 1
                         /\ pc'[r] = "done"

C16_NoTimeoutTrustsCache == [][C16_StepOK]_vars

\* Freshness checking is off; a request that found an entry has redirected
\* without a probe and removed its map entry, and has started no job: the
\* only Put for the key is the one that stored the object it found.
C16_Witness ==
    \E r \in Reqs :
        /\ CheckSyncTimeout = 0
        /\ cacheSize[r] \in Sizes /\ pc[r] = "dc_close"
        /\ resp[r] = << "redirect" >>
        /\ mut[u(r)] = NoChan
        /\ sourceSize[r] = NoProbe /\ jobpc[r] = "none"
        /\ putCalls[key[r]] = 1

\* ---- C14 --------------------------------------------------------------------------
\* C14: a waiter that returns on its own cancellation writes Canceled and
\* leaves the in-flight map, every channel and every job as they were; a
\* triggering caller that returns on cancellation does the same, and while
\* its job has not run its doneCache the map entry is still the caller's
\* channel, open, and only that job's doneCache removes and closes it.
C14_StepOK ==
    \A r \in Reqs :
        /\ (pc[r] = "wait" /\ pc'[r] = "done") =>
              /\ ctxDone[r] /\ Writes(r, "canceled")
              /\ ~won'[r]
              /\ UNCHANGED << mut, closeCount, store, job, errCh >>
              /\ \A q \in Reqs \ {r} : closeCh'[q] = closeCh[q]
        /\ (pc[r] = "select" /\ pc'[r] = "done" /\ Writes(r, "canceled")) =>
              /\ ctxDone[r]
              /\ UNCHANGED << mut, closeCount, store, job, closeCh >>
        /\ (pc'[r] = "done" /\ jobpc'[r] \in {"get", "put", "send", "dc_delete"}) =>
              /\ mut'[u(r)] = r
              /\ closeCh'[r] = r
              /\ closeCount'[r] = 0
        /\ (jobpc[r] # "none" /\ mut[u(r)] = r /\ mut'[u(r)] # r) =>
              jobpc[r] = "dc_delete" /\ jobpc'[r] = "dc_close"
        /\ (jobpc[r] # "none" /\ closeCount'[r] # closeCount[r]) =>
              jobpc[r] = "dc_close" /\ jobpc'[r] = "end"

C14_CancelLeavesReservation == [][C14_StepOK]_vars

\* Both cancelled: the triggering caller has answered Canceled while its
\* job, still before the Put, keeps the entry and the open channel; a waiter
\* on that channel has answered Canceled without ever winning an insert.
C14_Witness ==
    \E c, q \in Reqs :
        /\ c # q
        /\ Answered(c, "canceled") /\ jobpc[c] = "put"
        /\ mut[u(c)] = c /\ closeCh[c] = c /\ closeCount[c] = 0
        /\ Answered(q, "canceled") /\ ~won[q] /\ key[q] = key[c]

\* ---- C15 --------------------------------------------------------------------------
\* C15: a waiter leaves its select only on its own cancellation, answering
\* Canceled, or on the close of the channel it waits on; woken, it writes
\* nothing and retries the insert: it goes to Stat only if the map had no
\* entry and now holds its own fresh channel, and otherwise it waits again
\* on the channel another request has stored meanwhile.  No request is at
\* Stat or beyond without its own channel in the map.
C15_StepOK ==
    \A r \in Reqs :
        /\ (/\ pc[r] = "wait"
            /\ << pc'[r], closeCh'[r], retried'[r] >>
                   # << pc[r], closeCh[r], retried[r] >>) =>
              \/ /\ pc'[r] = "done"
                 /\ ctxDone[r] /\ Writes(r, "canceled")
                 /\ mut' = mut /\ ~won'[r]
              \/ /\ closeCount[closeCh[r]] > 0
                 /\ retried'[r] /\ resp'[r] = resp[r]
                 /\ IF mut[u(r)] = NoChan
                    THEN /\ pc'[r] = "stat"
                         /\ mut'[u(r)] = r /\ closeCh'[r] = r
                         /\ won'[r]
                    ELSE /\ pc'[r] = "wait"
                         /\ mut' = mut
                         /\ closeCh'[r] = mut[u(r)]
                         /\ closeCh'[r] \notin {r, closeCh[r]}
                         /\ ~won'[r]
        /\ (pc'[r] = "stat" /\ pc[r] # "stat") =>
              /\ pc[r] \in {"new", "wait"}
              /\ mut[RedirectLinks(key'[r])[1]] = NoChan
        /\ pc'[r] \in {"stat", "head", "compare"} =>
              mut'[RedirectLinks(key'[r])[1]] = r

C15_WokenWaiterReinserts == [][C15_StepOK]_vars

\* The race repeated: a woken waiter retried the insert, lost it to another
\* woken waiter, and now waits on that request's open channel.
C15_Witness ==
    \E q, x \in Reqs :
        /\ q # x
        /\ retried[q] /\ pc[q] = "wait" /\ ~won[q]
        /\ closeCh[q] = x /\ closeCount[x] = 0
        /\ retried[x] /\ mut[u(x)] = x /\ pc[x] = "stat"

\* ---- C17 --------------------------------------------------------------------------
\* C17: the step that takes a request past Stat never writes an internal
\* error or a not-found.  A request that leaves Stat for a miss writes
\* nothing, keeps its own open channel in the map, and starts its populate
\* job while no other job for the key holds the reservation; no request
\* starts a job twice.
C17_StepOK ==
    \A r \in Reqs :
        /\ (pc[r] = "stat" /\ pc'[r] # "stat") =>
              /\ ~Writes(r, "error") /\ ~Writes(r, "notfound")
              /\ pc'[r] \in {"select", "head", "dc_delete", "panic"}
              /\ pc'[r] = "select" <=> why'[r] = "miss"
        /\ (why'[r] = "miss" /\ why[r] # "miss") =>
              /\ pc[r] = "stat" /\ pc'[r] = "select"
              /\ resp'[r] = resp[r]
              /\ UNCHANGED << mut, closeCount, store, putCalls >>
              /\ mut[u(r)] = r /\ closeCount[r] = 0
              /\ Running(key[r]) = {}
              /\ jobpc[r] = "none" /\ jobpc'[r] = "get"
        /\ (jobpc'[r] = "get" /\ jobpc[r] # "get") => jobpc[r] = "none"

C17_StatErrorIsMiss == [][C17_StepOK]_vars

\* Stat failed for a key with no object: the request has written nothing,
\* holds the reservation and its populate job is the only one running,
\* with another request waiting on its channel.
C17_Witness ==
    \E r, q \in Reqs :
        /\ pc[r] = "select" /\ why[r] = "miss" /\ resp[r] = << >>
        /\ store[key[r]] = NoEntry
        /\ mut[u(r)] = r /\ closeCount[r] = 0
        /\ Running(key[r]) = {r} /\ jobpc[r] = "get"
        /\ pc[q] = "wait" /\ closeCh[q] = r

\* ---- C18 --------------------------------------------------------------------------
\* C18: a map entry is never overwritten; it is removed only by the step
\* of doneCache of the request that inserted it, and a channel is closed
\* only by the closing step of doneCache of the request that made it, after
\* that request's entry is out of the map.  At doneCache the entry under
\* the url is the owner's own channel.
C18_StepOK ==
    /\ \A x \in Urls :
         /\ (mut[x] # NoChan /\ mut'[x] = NoChan) =>
               /\ won[mut[x]] /\ u(mut[x]) = x /\ closeCh[mut[x]] = mut[x]
               /\ \/ pc[mut[x]] = "dc_delete" /\ pc'[mut[x]] = "dc_close"
                  \/ jobpc[mut[x]] = "dc_delete" /\ jobpc'[mut[x]] = "dc_close"
         /\ (mut'[x] # mut[x] /\ mut'[x] # NoChan) => mut[x] = NoChan
    /\ \A c \in Reqs :
         /\ closeCount'[c] # closeCount[c] =>
               /\ closeCount[c] = 0 /\ closeCount'[c] = 1
               /\ won[c] /\ closeCh[c] = c /\ mut[u(c)] # c
               /\ \/ pc[c] = "dc_close" /\ pc'[c] = "done"
                  \/ jobpc[c] = "dc_close" /\ jobpc'[c] = "end"
         /\ (pc'[c] = "dc_delete" \/ jobpc'[c] = "dc_delete") =>
               mut'[u(c)] = c /\ closeCh'[c] = c

C18_OwnerRemovesOwnEntry == [][C18_StepOK]_vars

\* Between the Delete and the close of a populate job's doneCache another
\* request has already inserted its own channel for the url; the job is
\* about to close the channel it made itself.
C18_Witness ==
    \E r, x \in Reqs :
        /\ r # x
        /\ jobpc[r] = "dc_close" /\ closeCh[r] = r /\ closeCount[r] = 0
        /\ mut[u(r)] = x /\ pc[x] = "stat" /\ closeCh[x] = x

\* ---- C19 --------------------------------------------------------------------------
\* C19: every open channel a waiter is blocked on is the map entry of an
\* owner that is still on its way to doneCache, or has just been removed
\* from the map by an owner whose next step closes it; and a populate job
\* that is about to deliver its result finds room in errCh.
C19_NoLostWakeup ==
    /\ \A q \in Reqs :
         (pc[q] = "wait" /\ closeCount[closeCh[q]] = 0) =>
             LET c == closeCh[q]
             IN  \/ /\ mut[u(q)] = c
                    /\ \/ pc[c] \in {"stat", "head", "compare", "dc_delete"}
                       \/ jobpc[c] \in {"get", "put", "send", "dc_delete"}
                 \/ /\ mut[u(q)] # c
                    /\ pc[c] = "dc_close" \/ jobpc[c] = "dc_close"
    /\ \A r \in Reqs : jobpc[r] = "send" => Len(errCh[r]) < ErrChCap

\* ---- C20 --------------------------------------------------------------------------
\* C20: a request only ever waits on a channel made by a request for its
\* own key, and it is made to wait on arrival only when that key's url has
\* an entry; the requests for one key that hold a reservation are at most
\* one; and a step of a request for one key leaves the map entry, the
\* channels and the handlers of the requests for every other key as they
\* were.
C20_StepOK ==
    \A r \in Reqs :
        /\ pc'[r] = "wait" => key'[closeCh'[r]] = key'[r]
        /\ (pc[r] = "new" /\ pc'[r] # "new") =>
              IF \E o \in Reqs : key[o] = key'[r] /\ Holds(o)
              THEN pc'[r] = "wait"
              ELSE pc'[r] = "stat"
        /\ Cardinality({o \in Reqs : key'[o] = key'[r] /\ Holds(o)'}) <= 1
        /\ << pc'[r], jobpc'[r] >> # << pc[r], jobpc[r] >> =>
              \A q \in Reqs :
                  (key[q] # NoKey /\ key[q] # key'[r]) =>
                      /\ mut'[u(q)] = mut[u(q)]
                      /\ closeCount'[q] = closeCount[q]
                      /\ closeCh'[q] = closeCh[q]
                      /\ pc'[q] = pc[q] /\ jobpc'[q] = jobpc[q]

C20_KeysIndependent == [][C20_StepOK]_vars

\* Two requests for different keys hold their reservations at the same
\* time, each with its own entry and its populate job at the Put.
C20_Witness ==
    \E r1, r2 \in Reqs :
        /\ key[r1] = "a" /\ key[r2] = "b"
        /\ mut[u(r1)] = r1 /\ mut[u(r2)] = r2
        /\ jobpc[r1] = "put" /\ jobpc[r2] = "put"

\* ---- C12 --------------------------------------------------------------------------
\* The path is some prefix followed by one of the blocked suffixes.
EndsBlocked ==
    \E suffix \in BlockSuffix : \E n \in 0..Len(urlPath) :
        urlPath = SubSeq(urlPath, 1, n) \o suffix

MethodAllowed == method \in {"GET", "HEAD"}

\* C12: the checks run in the order method, blocked suffix, path and host:
\* a request with another method is answered 405 whatever its path, a GET
\* or HEAD whose path ends in a blocked suffix is answered 403 even when
\* the path or the host is invalid, and not-found is written only to a GET
\* or HEAD that is not blocked.  The 403 step returns with the request, the
\* link, the in-flight map, the channels, the store and the populate jobs
\* untouched, and nothing happens for the request afterwards: no link is
\* resolved, no insert is made, no Stat, HEAD, GET or Put is issued.
C12_StepOK ==
    \A r \in Reqs :
        /\ (pc[r] = "recv" /\ pc'[r] # "recv") =>
              /\ ~MethodAllowed => Writes(r, "methodnotallowed")
              /\ (MethodAllowed /\ EndsBlocked) =>
                    /\ Writes(r, "forbidden")
                    /\ pc'[r] = "done"
                    /\ UNCHANGED << request, store, mut, closeCount, key,
                                    closeCh, job, errCh, won, putCalls >>
              /\ Writes(r, "forbidden") => (MethodAllowed /\ EndsBlocked)
              /\ Writes(r, "notfound") => (MethodAllowed /\ ~EndsBlocked)
              /\ pc'[r] \in {"new", "direct"} =>
                    (MethodAllowed /\ ~EndsBlocked)
        /\ (resp[r] # << >> /\ resp[r][1] = "forbidden") =>
              /\ pc[r] = "done" /\ key[r] = NoKey /\ ~won[r]
              /\ jobpc[r] = "none" /\ closeCh[r] = NoChan
              /\ UNCHANGED << resp, pc, key, store, mut, closeCount, job,
                              putCalls >>
        /\ (resp'[r] # << >> /\ resp'[r][1] = "forbidden") =>
              /\ resp'[r] = << "forbidden" >>
              /\ pc'[r] = "done" /\ key'[r] = NoKey /\ ~won'[r]
              /\ jobpc'[r] = "none" /\ cacheSize'[r] = NoEntry
              /\ sourceSize'[r] = NoProbe

C12_BlockedBeforeAnythingElse == [][C12_StepOK]_vars

\* A GET with a cache configured is answered 403 for a path that ends in
\* "/", one that the path check would have answered not-found.
C12_Witness ==
    /\ Answered(ServedReq, "forbidden")
    /\ method = "GET" /\ cacheConfigured
    /\ HasSuffix(urlPath, Slash)
    /\ key[ServedReq] = NoKey /\ putCalls = [k \in Keys |-> 0]

\* ---- C13 --------------------------------------------------------------------------
\* C13: in host-from-first-path mode, for a GET or HEAD whose path is not
\* blocked: when the path is "/" h "/" rest, with no "/" in h and rest not
\* empty and not ending in "/", the step sets r.Host to h and r.URL.Path
\* to "/" rest; when the path is "/" h with no "/" in h, the step writes
\* not-found, returns and leaves the request as it was; and the request
\* goes on to cacheResponse or directResponse only from a path of the
\* first shape.
C13_StepOK ==
    \A r \in Reqs :
        (/\ pc[r] = "recv" /\ pc'[r] # "recv"
         /\ HostFromFirstPath /\ MethodAllowed /\ ~EndsBlocked) =>
            LET n == Len(urlPath)
                Seconds == {i \in 2..n :
                               /\ urlPath[i] = "/"
                               /\ \A j \in 2..(i - 1) : urlPath[j] # "/"
                               /\ i < n
                               /\ urlPath[n] # "/"}
            IN  /\ \A i \in Seconds :
                      /\ reqHost' = SubSeq(urlPath, 2, i - 1)
                      /\ urlPath' = Slash \o SubSeq(urlPath, i + 1, n)
                /\ (n >= 2 /\ \A j \in 2..n : urlPath[j] # "/") =>
                      /\ Writes(r, "notfound")
                      /\ pc'[r] = "done"
                      /\ UNCHANGED request
                /\ pc'[r] \in {"new", "direct"} => Seconds # {}

C13_HostFromFirstPath == [][C13_StepOK]_vars

\* "/a.a/a" has been resolved to host "a.a" and path "/a", and the request
\* is in cacheResponse.
C13_Witness ==
    /\ HostFromFirstPath
    /\ pc[ServedReq] = "stat"
    /\ reqHost = << "a", ".", "a" >>
    /\ urlPath = << "/", "a" >>

====
